---- MODULE Spec2Model ----
(***************************************************************************)
(* A model of png2t (src/src/main.rs, src/src/helpers.rs): the session of  *)
(* main (Media::new, unpack_file, transform, render, drop), the playback   *)
(* loop of render / play_video, the glyph renderer display_frame and the   *)
(* sizing computation of transform.                                        *)
(*                                                                         *)
(* Strings are sequences of one-character strings.  The token "F" of a     *)
(* metadata text stands for the four characters " fps".  Frame rates are   *)
(* kept in hundredths (fps100 = 100 * fps), scale factors in quarters      *)
(* (scale4 = 4 * scale), so that all arithmetic is integer arithmetic.     *)
(***************************************************************************)
EXTENDS Integers, Sequences, FiniteSets, TLC

VARIABLES
    config,      \* Args: the parsed command line (main.rs:15-42)
    env,         \* what the outside world holds: the file's frames, audio, metadata
    frames,      \* Media.frames
    is_video,    \* Media.is_video
    has_audio,   \* Media.has_audio
    storage,     \* does the temporary directory exist on disk
    audioTried,  \* has unpack_file run the audio extraction
    pc,          \* position of the main thread
    rawMode,     \* terminal raw mode (process wide)
    pos,         \* the cursor anchor saved by render ("unset" before)
    cursor,      \* where the terminal cursor is: "anchor" or "below"
    delay,       \* the inter-frame delay in ms resolved by render
    passes,      \* number of passes of the render loop started
    frameIdx,    \* index of the frame the for loop of play_video is at
    x, y, cell,  \* locals of display_frame
    out,         \* what the running display_frame call has printed
    reads,       \* the get_pixel calls of the running display_frame call
    shown,       \* frame indices handed to display_frame in the current pass
    rendered,    \* number of display_frame calls of the session
    audioAlive,  \* is an audio handle (_audio) alive
    audioStarts, \* number of spawn_audio calls
    cancelled,   \* has a poll observed 'q' or Ctrl-C
    polls,       \* number of polls done
    sleeps,      \* the durations of the inter-frame sleeps done, in order
    steps,       \* what play_video has done for its current frame, in order
    consumed,    \* the event read() took at the last poll, none if it timed out
    res,         \* the value play_video returned to render
    renderRet,   \* the value render returned to main
    result       \* how main ended

mediaVars == <<frames, is_video, has_audio, storage, audioTried>>
termVars == <<rawMode, pos, cursor>>
dispVars == <<x, y, cell, out, reads>>
audioVars == <<audioAlive, audioStarts>>
playVars == <<delay, passes, frameIdx, shown, rendered, cancelled, polls, sleeps,
              steps, consumed, res>>

vars == <<config, env, mediaVars, pc, termVars, dispVars, audioVars, playVars,
          renderRet, result>>

(***************************************************************************)
(* Bounds of the model.                                                    *)
(***************************************************************************)
MaxFrames == 3      \* longest Sequence
MaxPasses == 2      \* passes of the render loop that are followed
MaxW == 2           \* widest Bitmap
MaxH == 3           \* tallest Bitmap
MaxSizeLen == 5     \* longest --size string
MaxFps100 == 6100   \* largest frame rate of the rate check, in hundredths

\* Option<T>: <<>> is None, <<v>> is Some(v)
NoneOpt == <<>>
Some(v) == <<v>>
IsSome(o) == o # <<>>

(***************************************************************************)
(* Bitmaps.  A pixel is Rgba<u8>: <<r, g, b, a>>.  A frame is a record     *)
(* [w, h, px] with px[<<x, y>>] the pixel at column x, row y.              *)
(***************************************************************************)
U8Max == 255

PixelSamples == << <<255, 0, 0, 255>>, <<0, 0, 255, 128>>, <<7, 8, 9, 0>> >>

Coords(w, h) == (0 .. w - 1) \X (0 .. h - 1)

\* the frame number i (from 0) of a w x h source file
SourceFrame(i, w, h) ==
    [w |-> w, h |-> h,
     px |-> [c \in Coords(w, h) |-> PixelSamples[((i + c[1] + 2 * c[2]) % 3) + 1]]]

Min(a, b) == IF a < b THEN a ELSE b

\* imageops::resize(frame, nwidth, nheight, Nearest): an nwidth x nheight image
\* whose pixel (x, y) is the source pixel nearest to the centre of (x, y)
ResizeNearest(f, nw, nh) ==
    [w |-> nw, h |-> nh,
     px |-> [c \in Coords(nw, nh) |->
               f.px[<< Min(f.w - 1, ((2 * c[1] + 1) * f.w) \div (2 * nw)),
                       Min(f.h - 1, ((2 * c[2] + 1) * f.h) \div (2 * nh)) >>]]]

\* an inversion that takes the alpha channel along
InvertPixel_AlphaToo(p) == [i \in 1 .. 4 |-> U8Max - p[i]]

\* pixel[0..2] = u8::MAX - pixel[0..2]; pixel[3] is left alone
InvertPixel(p) == <<U8Max - p[1], U8Max - p[2], U8Max - p[3], p[4]>>

InvertFrame(f) == [f EXCEPT !.px = [c \in Coords(f.w, f.h) |-> InvertPixel(f.px[c])]]

FlipH(f) == [f EXCEPT !.px = [c \in Coords(f.w, f.h) |-> f.px[<<f.w - 1 - c[1], c[2]>>]]]

FlipV(f) == [f EXCEPT !.px = [c \in Coords(f.w, f.h) |-> f.px[<<c[1], f.h - 1 - c[2]>>]]]

(***************************************************************************)
(* Strings and numbers.                                                    *)
(***************************************************************************)
Digits == <<"0", "1", "2", "3", "4", "5", "6", "7", "8", "9">>

IsDigit(ch) == \E i \in 1 .. 10 : Digits[i] = ch

DigitVal(ch) == (CHOOSE i \in 1 .. 10 : Digits[i] = ch) - 1

RECURSIVE DecVal(_)
\* value of a string of decimal digits
DecVal(s) ==
    IF s = <<>> THEN 0
    ELSE 10 * DecVal(SubSeq(s, 1, Len(s) - 1)) + DigitVal(s[Len(s)])

AllDigits(s) == \A i \in 1 .. Len(s) : IsDigit(s[i])

\* str::parse::<u32>(c): an optional '+' and at least one digit, else Err
ParseU32(c) ==
    LET d == IF c # <<>> /\ c[1] = "+" THEN Tail(c) ELSE c
    IN  IF d # <<>> /\ AllDigits(d) THEN Some(DecVal(d)) ELSE NoneOpt

UnwrapOr(o, dflt) == IF IsSome(o) THEN o[1] ELSE dflt

RECURSIVE Split(_, _)
\* s.split(sep): the pieces of s between the occurrences of sep
Split(s, sep) ==
    IF \A i \in 1 .. Len(s) : s[i] # sep THEN <<s>>
    ELSE LET i == CHOOSE k \in 1 .. Len(s) :
                      s[k] = sep /\ \A j \in 1 .. k - 1 : s[j] # sep
         IN  <<SubSeq(s, 1, i - 1)>> \o Split(SubSeq(s, i + 1, Len(s)), sep)

\* (v as f32 * scale) as u32 for scale = scale4 / 4: truncation toward zero,
\* a negative product saturates to 0
ScaleDim(v, scale4) == IF v * scale4 < 0 THEN 0 ELSE (v * scale4) \div 4

SizeError == "Invalid coordinates supplied to --size tag: must be in format NUMxNUM"

\* DefaultDims rounding the shorter side to the nearest integer
DefaultDims_Rounds(w, h) ==
    IF w > h THEN <<64, (64 * h + w \div 2) \div w>>
    ELSE <<IF h = 0 THEN 0 ELSE (64 * w + h \div 2) \div h, 64>>

\* the default geometry (helpers.rs:184-187): the longest side becomes 64, the
\* other one 64.0 * (shorter / longer) cast to u32 (0 / 0 is NaN, cast to 0)
DefaultDims(w, h) ==
    IF w > h THEN <<64, (64 * h) \div w>>
    ELSE <<IF h = 0 THEN 0 ELSE (64 * w) \div h, 64>>

\* the target geometry of transform (helpers.rs:168-193) for first-frame
\* dimensions (w, h): <<"err", msg>>, <<"panic", why>> or <<"ok", nwidth, nheight>>
TargetDims(cfg, w, h) ==
    LET coords == IF ~IsSome(cfg.size) THEN <<>>
                  ELSE [i \in 1 .. Len(Split(cfg.size[1], "x")) |->
                           UnwrapOr(ParseU32(Split(cfg.size[1], "x")[i]), 0)]
        sized == IF IsSome(cfg.size) THEN <<coords[1], coords[2]>>
                 ELSE IF ~cfg.preserve_dims THEN DefaultDims(w, h)
                 ELSE <<w, h>>
    IN  IF IsSome(cfg.size) /\ \E i \in 1 .. Len(coords) : coords[i] = 0
        THEN <<"err", SizeError>>
        ELSE IF IsSome(cfg.size) /\ Len(coords) < 2
        THEN <<"panic", "index out of bounds">>
        ELSE IF ~IsSome(cfg.scale4) THEN <<"ok", sized[1], sized[2]>>
        ELSE <<"ok", ScaleDim(sized[1], cfg.scale4[1]),
                     ScaleDim(sized[2], cfg.scale4[1])>>

\* the body of the for loop of transform for one frame (helpers.rs:195-213)
TransformFrame(cfg, f, nw, nh) ==
    LET r == ResizeNearest(f, nw, nh)
        i == IF cfg.invert THEN InvertFrame(r) ELSE r
        fh == IF cfg.flip_h THEN FlipH(i) ELSE i
    IN  IF cfg.flip_v THEN FlipV(fh) ELSE fh

(***************************************************************************)
(* Rate resolution (helpers.rs:243-268).                                   *)
(***************************************************************************)
\* does s have the form \d*\.?\d*
NumShape(s) ==
    /\ \A i \in 1 .. Len(s) : IsDigit(s[i]) \/ s[i] = "."
    /\ Cardinality({i \in 1 .. Len(s) : s[i] = "."}) <= 1

HasFps(text) == \E i \in 1 .. Len(text) : text[i] = "F"

\* RE.captures(text) for RE = (\d*\.?\d*) fps: None without a match, else
\* Some(group 1) of the leftmost match.  Every suffix of a \d*\.?\d* string has
\* that form too, so the leftmost match ends at the first " fps" and its group
\* is the longest such string before it; the group takes part in every match.
RegexCaptures(text) ==
    IF ~HasFps(text) THEN NoneOpt
    ELSE LET p == CHOOSE k \in 1 .. Len(text) :
                      text[k] = "F" /\ \A j \in 1 .. k - 1 : text[j] # "F"
             i == CHOOSE k \in 1 .. p :
                      /\ NumShape(SubSeq(text, k, p - 1))
                      /\ \A j \in 1 .. k - 1 : ~NumShape(SubSeq(text, j, p - 1))
         IN  Some([g1 |-> Some(SubSeq(text, i, p - 1))])

\* str::parse::<f32>(s) for a string of the form \d*\.?\d*, in hundredths:
\* Err without a digit; the model's rates carry at most two decimals
ParseF32(s) ==
    LET dots == {i \in 1 .. Len(s) : s[i] = "."}
        d == IF dots = {} THEN Len(s) + 1 ELSE CHOOSE i \in dots : TRUE
        int == SubSeq(s, 1, d - 1)
        frac == SubSeq(s, d + 1, Len(s))
        frac2 == SubSeq(frac \o <<"0", "0">>, 1, 2)
    IN  IF int = <<>> /\ frac = <<>> THEN NoneOpt
        ELSE Some(100 * DecVal(int) + DecVal(frac2))

\* the Duration of u64::MAX ms that the saturating cast of +inf gives
DelaySaturated == -1

\* FpsDelay rounding to the nearest millisecond instead of truncating
FpsDelay_Rounds(fps100) ==
    IF fps100 = 0 THEN DelaySaturated ELSE (200000 + fps100) \div (2 * fps100)

\* (1000.0 / fps) as u64 for fps = fps100 / 100: truncation toward zero
FpsDelay(fps100) == IF fps100 = 0 THEN DelaySaturated ELSE 100000 \div fps100

FramerateError == "Could not determine framerate of video!"

(***************************************************************************)
(* The glyph renderer (helpers.rs:301-341).  A printed item is a record    *)
(* [t, rgb]: "bg" is ESC[48;2;r;g;bm, "fg" is ESC[38;2;r;g;bm, "reset" is  *)
(* ESC[0m, "lower_half" and "upper_half" are the block glyphs, "space" is  *)
(* " ", "move_down" is MoveDown(1) and "to_col0" is MoveToColumn(0).       *)
(***************************************************************************)
Tok(t) == [t |-> t, rgb |-> <<>>]
Colour(t, p) == [t |-> t, rgb |-> <<p[1], p[2], p[3]>>]

\* CellGlyph with the two colours of a two-colour cell exchanged
CellGlyph_SwapsColours(upper, lower) ==
    IF upper[4] # 0 /\ lower[4] # 0
    THEN <<Colour("bg", lower), Colour("fg", upper), Tok("lower_half"), Tok("reset")>>
    ELSE IF upper[4] = 0 /\ lower[4] = 0
    THEN <<Tok("space")>>
    ELSE IF upper[4] # 0 /\ lower[4] = 0
    THEN <<Colour("fg", upper), Tok("upper_half"), Tok("reset")>>
    ELSE <<Colour("fg", lower), Tok("lower_half"), Tok("reset")>>

\* what the if / else if chain prints for one cell (helpers.rs:313-324)
CellGlyph(upper, lower) ==
    IF upper[4] # 0 /\ lower[4] # 0
    THEN <<Colour("bg", upper), Colour("fg", lower), Tok("lower_half"), Tok("reset")>>
    ELSE IF upper[4] = 0 /\ lower[4] = 0
    THEN <<Tok("space")>>
    ELSE IF upper[4] # 0 /\ lower[4] = 0
    THEN <<Colour("fg", upper), Tok("upper_half"), Tok("reset")>>
    ELSE <<Colour("fg", lower), Tok("lower_half"), Tok("reset")>>

\* a loop that takes the odd last row for half a pair
CellCount_RoundsUp(f) == ((f.h + 1) \div 2) * f.w

\* the iteration count of the for loop of display_frame (helpers.rs:304)
CellCount(f) == (f.h \div 2) * f.w

InBounds(f, cx, cy) == cx < f.w /\ cy < f.h

\* Advance going down one pixel row at the end of a row of cells
Advance_OneRow(f, cx, cy) == IF cx = f.w - 1 THEN <<0, cy + 1>> ELSE <<cx + 1, cy>>

\* the cursor arithmetic at the end of an iteration (helpers.rs:331-337):
\* the next <<x, y>>
Advance(f, cx, cy) == IF cx = f.w - 1 THEN <<0, cy + 2>> ELSE <<cx + 1, cy>>

(***************************************************************************)
(* Results: [kind, msg, at] with kind "none" (not returned), "ok", "err",  *)
(* "panic", and for play_video "true" / "false" (Ok(true) / Ok(false)).    *)
(***************************************************************************)
Ret(kind, msg, at) == [kind |-> kind, msg |-> msg, at |-> at]
NoRet == Ret("none", "", <<>>)
Ok == Ret("ok", "", <<>>)
OkBool(b) == Ret(IF b THEN "true" ELSE "false", "", <<>>)
Err(msg) == Ret("err", msg, <<>>)
Panic(msg) == Ret("panic", msg, <<>>)

FlushError(cx, cy) == Ret("err", "Failed to print image at", <<cx, cy>>)

(***************************************************************************)
(* The session of main (main.rs:75-84).                                    *)
(***************************************************************************)
CreateDirError == "Couldn't load file: Unable to create output directory"

\* Media::new (helpers.rs:42-62) and the match of main (main.rs:75-78): the
\* directory is created unless it exists; without it there is no Media
MediaNew ==
    /\ pc = "new"
    /\ IF ~storage /\ ~env.mkdirOk
       THEN /\ result' = Err(CreateDirError)
            /\ pc' = "exit"
            /\ UNCHANGED storage
       ELSE /\ storage' = TRUE
            /\ pc' = "unpack"
            /\ UNCHANGED result
    /\ UNCHANGED <<config, env, frames, is_video, has_audio, audioTried, termVars,
                   dispVars, audioVars, playVars, renderRet>>

\* the message of a failed decode (helpers.rs:138-151) when self.frames holds
\* loaded frames and the file number idx (from 0) fails; at is <<i, n>> of
\* "frame i/n of file", empty when the message names the file alone
DecodeError(loaded, idx) ==
    IF loaded = 1 THEN Ret("err", "Unable to decode file", <<>>)
    ELSE Ret("err", "Unable to decode frame of file", <<idx, loaded>>)

\* has_audio taken from the extraction alone
HasAudio_IgnoresMute(cfg, e) == e.audioOk

\* self.has_audio of unpack_file (helpers.rs:91-107)
HasAudio(cfg, e) == ~cfg.mute /\ e.audioOk

\* is_video set for any sequence that is not empty
IsVideo_AtLeastOne(fs) == Len(fs) > 0

\* self.is_video of load_frames (helpers.rs:158)
IsVideo(fs) == Len(fs) > 1

\* does the decode of one of the files fail
DecodeFails == IsSome(env.badFrame) /\ env.badFrame[1] < Len(env.srcFrames)

\* Media::unpack_file with load_frames (helpers.rs:72-161): the audio is
\* extracted unless mute is set; the files are decoded and pushed in order
\* until one fails
UnpackFile ==
    /\ pc = "unpack"
    /\ audioTried' = ~config.mute
    /\ has_audio' = HasAudio(config, env)
    /\ IF DecodeFails
       THEN /\ frames' = frames \o SubSeq(env.srcFrames, 1, env.badFrame[1])
            /\ result' = DecodeError(Len(frames'), env.badFrame[1])
            /\ pc' = "drop"
            /\ UNCHANGED is_video
       ELSE /\ frames' = frames \o env.srcFrames
            /\ is_video' = IsVideo(frames')
            /\ pc' = "transform"
            /\ UNCHANGED result
    /\ UNCHANGED <<config, env, storage, termVars, dispVars, audioVars, playVars,
                   renderRet>>

\* Media::transform (helpers.rs:167-216)
Transform ==
    /\ pc = "transform"
    /\ IF frames = <<>>
       THEN /\ result' = Panic("index out of bounds")
            /\ pc' = "drop"
            /\ UNCHANGED frames
       ELSE LET t == TargetDims(config, frames[1].w, frames[1].h)
            IN  IF t[1] = "err"
                THEN /\ result' = Err(t[2])
                     /\ pc' = "drop"
                     /\ UNCHANGED frames
                ELSE IF t[1] = "panic"
                THEN /\ result' = Panic(t[2])
                     /\ pc' = "drop"
                     /\ UNCHANGED frames
                ELSE /\ frames' = [i \in 1 .. Len(frames) |->
                                     TransformFrame(config, frames[i], t[2], t[3])]
                     /\ pc' = "render"
                     /\ UNCHANGED result
    /\ UNCHANGED <<config, env, is_video, has_audio, storage, audioTried, termVars,
                   dispVars, audioVars, playVars, renderRet>>

CleanError == "Failed to clean temp directory"

\* Drop with the result of remove_dir_all thrown away
Drop_IgnoresFailure ==
    /\ pc = "drop"
    /\ storage' = (storage /\ ~env.removeOk)
    /\ pc' = "exit"
    /\ UNCHANGED <<config, env, frames, is_video, has_audio, audioTried, termVars,
                   dispVars, audioVars, playVars, renderRet, result>>

\* Drop for Media (helpers.rs:409-419), run when main returns or unwinds: the
\* directory is removed, and a failed removal panics
Drop ==
    /\ pc = "drop"
    /\ IF env.removeOk
       THEN /\ storage' = FALSE
            /\ pc' = "exit"
            /\ UNCHANGED result
       ELSE /\ result' = Panic(CleanError)
            /\ pc' = "abort"
            /\ UNCHANGED storage
    /\ UNCHANGED <<config, env, frames, is_video, has_audio, audioTried, termVars,
                   dispVars, audioVars, playVars, renderRet>>

(***************************************************************************)
(* Media::render (helpers.rs:224-295).                                     *)
(***************************************************************************)
\* what entering display_frame does to its locals
EnterDisplay ==
    /\ x' = 0
    /\ y' = 0
    /\ cell' = 0
    /\ out' = <<>>
    /\ reads' = <<>>
    /\ rendered' = rendered + 1
    /\ steps' = <<"render">>

\* helpers.rs:226-241: reserve the lines, enter raw mode, save the anchor;
\* for a still image go on into display_frame (helpers.rs:290)
RenderPrime ==
    /\ pc = "render"
    /\ rawMode' = TRUE
    /\ cursor' = "anchor"
    /\ pos' = "anchor"
    /\ IF is_video
       THEN /\ pc' = "resolve"
            /\ UNCHANGED <<dispVars, rendered, frameIdx, shown, steps>>
       ELSE /\ pc' = "display"
            /\ frameIdx' = 0
            /\ shown' = <<0>>
            /\ EnterDisplay
    /\ UNCHANGED <<config, env, mediaVars, audioVars, delay, passes, cancelled,
                   polls, sleeps, res, renderRet, result,
                   consumed>>

\* helpers.rs:243-268: the frame rate from the output of ffprobe, and the delay
ResolveRate ==
    /\ pc = "resolve"
    /\ LET caps == RegexCaptures(env.metadata.text)
       IN  IF ~IsSome(caps)
           THEN /\ result' = Panic("called Option::unwrap() on a None value")
                /\ pc' = "drop"
                /\ UNCHANGED <<delay, renderRet>>
           ELSE IF ~IsSome(caps[1].g1)
           THEN /\ renderRet' = Err(FramerateError)
                /\ result' = Err(FramerateError)
                /\ pc' = "drop"
                /\ UNCHANGED delay
           ELSE IF ~IsSome(ParseF32(caps[1].g1[1]))
           THEN /\ result' = Panic("called Result::unwrap() on an Err value")
                /\ pc' = "drop"
                /\ UNCHANGED <<delay, renderRet>>
           ELSE /\ delay' = FpsDelay(ParseF32(caps[1].g1[1])[1])
                /\ pc' = "pass"
                /\ UNCHANGED <<renderRet, result>>
    /\ UNCHANGED <<config, env, mediaVars, termVars, dispVars, audioVars, passes,
                   frameIdx, shown, rendered, cancelled, polls, sleeps, res,
                   steps, consumed>>

\* PassBegin with the audio handle bound to nothing, so dropped at once
PassBegin_DropsAudio ==
    /\ pc = "pass"
    /\ passes < MaxPasses
    /\ passes' = passes + 1
    /\ IF has_audio
       THEN /\ audioAlive' = FALSE
            /\ audioStarts' = audioStarts + 1
       ELSE UNCHANGED audioVars
    /\ frameIdx' = 0
    /\ shown' = <<>>
    /\ pc' = "loop_head"
    /\ UNCHANGED <<config, env, mediaVars, termVars, dispVars, delay, rendered,
                   cancelled, polls, sleeps, res, renderRet, result,
                   steps, consumed>>

\* helpers.rs:273-277: the head of the loop of render: spawn_audio
\* (helpers.rs:378-396) when there is audio, then the call of play_video
PassBegin ==
    /\ pc = "pass"
    /\ passes < MaxPasses
    /\ passes' = passes + 1
    /\ IF has_audio
       THEN /\ audioAlive' = TRUE
            /\ audioStarts' = audioStarts + 1
       ELSE UNCHANGED audioVars
    /\ frameIdx' = 0
    /\ shown' = <<>>
    /\ pc' = "loop_head"
    /\ UNCHANGED <<config, env, mediaVars, termVars, dispVars, delay, rendered,
                   cancelled, polls, sleeps, res, renderRet, result,
                   steps, consumed>>

\* PassEnd leaving the loop of render after any pass that was not an error
PassEnd_BreaksOnTrue ==
    /\ pc = "pass_end"
    /\ audioAlive' = FALSE
    /\ IF res.kind = "err"
       THEN /\ renderRet' = res
            /\ result' = res
            /\ pc' = "drop"
            /\ UNCHANGED rawMode
       ELSE /\ rawMode' = FALSE
            /\ renderRet' = Ok
            /\ result' = Ok
            /\ pc' = "drop"
    /\ UNCHANGED <<config, env, mediaVars, pos, cursor, dispVars, audioStarts,
                   playVars>>

\* PassEnd taking an error of play_video for the end of a pass, so that a
\* looping video begins its next pass
PassEnd_RetriesOnError ==
    /\ pc = "pass_end"
    /\ audioAlive' = FALSE
    /\ IF res.kind = "true" \/ (res.kind = "err" /\ config.loop_video)
       THEN /\ pc' = "pass"
            /\ UNCHANGED <<rawMode, renderRet, result>>
       ELSE IF res.kind = "err"
       THEN /\ renderRet' = res
            /\ result' = res
            /\ pc' = "drop"
            /\ UNCHANGED rawMode
       ELSE /\ rawMode' = FALSE
            /\ renderRet' = Ok
            /\ result' = Ok
            /\ pc' = "drop"
    /\ UNCHANGED <<config, env, mediaVars, pos, cursor, dispVars, audioStarts,
                   playVars>>

\* helpers.rs:280-286: the block of the pass ends (_audio is dropped), then
\* match res?
PassEnd ==
    /\ pc = "pass_end"
    /\ audioAlive' = FALSE
    /\ IF res.kind = "err"
       THEN /\ renderRet' = res
            /\ result' = res
            /\ pc' = "drop"
            /\ UNCHANGED rawMode
       ELSE IF res.kind = "true"
       THEN /\ pc' = "pass"
            /\ UNCHANGED <<rawMode, renderRet, result>>
       ELSE /\ rawMode' = FALSE
            /\ renderRet' = Ok
            /\ result' = Ok
            /\ pc' = "drop"
    /\ UNCHANGED <<config, env, mediaVars, pos, cursor, dispVars, audioStarts,
                   playVars>>

(***************************************************************************)
(* Media::play_video (helpers.rs:351-373).                                 *)
(***************************************************************************)
\* the input events a poll can see: none within the timeout, or one event
Events == {"none", "q", "ctrl_c", "other"}

\* a test that takes any event read for the cancel input
IsCancel_AnyKey(ev) == ev # "none"

IsCancel(ev) == ev \in {"q", "ctrl_c"}

\* helpers.rs:352-353, 372: the head of the for loop: the next frame goes to
\* display_frame, or the frames are exhausted and Ok(loop_video) is returned
LoopHead ==
    /\ pc = "loop_head"
    /\ IF frameIdx < Len(frames)
       THEN /\ shown' = Append(shown, frameIdx)
            /\ EnterDisplay
            /\ pc' = "display"
            /\ UNCHANGED res
       ELSE /\ res' = OkBool(config.loop_video)
            /\ pc' = "pass_end"
            /\ UNCHANGED <<dispVars, shown, rendered, steps>>
    /\ UNCHANGED <<config, env, mediaVars, termVars, audioVars, delay, passes,
                   frameIdx, cancelled, polls, sleeps, renderRet, result,
                   consumed>>

\* helpers.rs:354: std::thread::sleep(delay)
Sleep ==
    /\ pc = "sleep"
    /\ sleeps' = Append(sleeps, delay)
    /\ pc' = "poll"
    /\ steps' = Append(steps, "sleep")
    /\ UNCHANGED <<config, env, mediaVars, termVars, dispVars, audioVars, delay,
                   passes, frameIdx, shown, rendered, cancelled, polls, res,
                   renderRet, result,
                   consumed>>

\* Poll leaving the for loop on the cancel input with a break, so that
\* play_video goes on to return Ok(loop_video)
Poll_BreaksOnCancel(ev) ==
    /\ pc = "poll"
    /\ polls' = polls + 1
    /\ IF IsCancel(ev)
       THEN /\ cancelled' = TRUE
            /\ res' = OkBool(config.loop_video)
            /\ pc' = "pass_end"
       ELSE /\ pc' = "reposition"
            /\ UNCHANGED <<cancelled, res>>
    /\ steps' = Append(steps, "poll")
    /\ consumed' = IF ev = "none" THEN NoneOpt ELSE Some(ev)
    /\ UNCHANGED <<config, env, mediaVars, termVars, dispVars, audioVars, delay,
                   passes, frameIdx, shown, rendered, sleeps, renderRet, result>>

\* Poll with the MoveTo done ahead of it
Poll_RepositionsFirst(ev) ==
    /\ pc = "poll"
    /\ polls' = polls + 1
    /\ cursor' = pos
    /\ IF IsCancel(ev)
       THEN /\ cancelled' = TRUE
            /\ res' = OkBool(FALSE)
            /\ pc' = "pass_end"
       ELSE /\ pc' = "reposition"
            /\ UNCHANGED <<cancelled, res>>
    /\ steps' = steps \o <<"reposition", "poll">>
    /\ consumed' = IF ev = "none" THEN NoneOpt ELSE Some(ev)
    /\ UNCHANGED <<config, env, mediaVars, rawMode, pos, dispVars, audioVars, delay,
                   passes, frameIdx, shown, rendered, sleeps, renderRet, result>>

\* helpers.rs:356-366: poll for 1 ms, read the event if there is one
Poll(ev) ==
    /\ pc = "poll"
    /\ polls' = polls + 1
    /\ IF IsCancel(ev)
       THEN /\ cancelled' = TRUE
            /\ res' = OkBool(FALSE)
            /\ pc' = "pass_end"
       ELSE /\ pc' = "reposition"
            /\ UNCHANGED <<cancelled, res>>
    /\ steps' = Append(steps, "poll")
    /\ consumed' = IF ev = "none" THEN NoneOpt ELSE Some(ev)
    /\ UNCHANGED <<config, env, mediaVars, termVars, dispVars, audioVars, delay,
                   passes, frameIdx, shown, rendered, sleeps, renderRet, result>>

\* Reposition stepping the loop by two frames
Reposition_SkipsFrame ==
    /\ pc = "reposition"
    /\ cursor' = pos
    /\ frameIdx' = frameIdx + 2
    /\ pc' = "loop_head"
    /\ steps' = Append(steps, "reposition")
    /\ UNCHANGED <<config, env, mediaVars, rawMode, pos, dispVars, audioVars,
                   delay, passes, shown, rendered, cancelled, polls, sleeps, res,
                   renderRet, result,
                   consumed>>

\* Reposition without the MoveTo
Reposition_NoMove ==
    /\ pc = "reposition"
    /\ frameIdx' = frameIdx + 1
    /\ pc' = "loop_head"
    /\ steps' = Append(steps, "reposition")
    /\ UNCHANGED <<config, env, mediaVars, termVars, dispVars, audioVars,
                   delay, passes, shown, rendered, cancelled, polls, sleeps, res,
                   renderRet, result,
                   consumed>>

\* helpers.rs:369: MoveTo(pos), then the loop goes to its next frame
Reposition ==
    /\ pc = "reposition"
    /\ cursor' = pos
    /\ frameIdx' = frameIdx + 1
    /\ pc' = "loop_head"
    /\ steps' = Append(steps, "reposition")
    /\ UNCHANGED <<config, env, mediaVars, rawMode, pos, dispVars, audioVars,
                   delay, passes, shown, rendered, cancelled, polls, sleeps, res,
                   renderRet, result,
                   consumed>>

(***************************************************************************)
(* Media::display_frame (helpers.rs:301-341).                              *)
(***************************************************************************)
\* the frame display_frame was called with
CurFrame == frames[frameIdx + 1]

\* helpers.rs:305-337: one iteration of the for loop; flushOk is whether
\* stdout().flush() succeeds
DisplayCell(flushOk) ==
    /\ pc = "display"
    /\ cell < CellCount(CurFrame)
    /\ reads' = reads \o << <<x, y>>, <<x, y + 1>> >>
    /\ IF ~InBounds(CurFrame, x, y) \/ ~InBounds(CurFrame, x, y + 1)
       THEN \* get_pixel panics; unwinding drops _audio
            /\ result' = Panic("Image index out of bounds")
            /\ pc' = "drop"
            /\ audioAlive' = FALSE
            /\ UNCHANGED <<x, y, cell, out, cursor, res, renderRet>>
       ELSE LET printed == out \o CellGlyph(CurFrame.px[<<x, y>>],
                                            CurFrame.px[<<x, y + 1>>])
            IN  IF ~flushOk
                THEN /\ out' = printed
                     /\ cursor' = "drawing"
                     /\ IF is_video
                        THEN /\ res' = FlushError(x, y)
                             /\ pc' = "pass_end"
                             /\ UNCHANGED <<renderRet, result>>
                        ELSE /\ renderRet' = FlushError(x, y)
                             /\ result' = FlushError(x, y)
                             /\ pc' = "drop"
                             /\ UNCHANGED res
                     /\ UNCHANGED <<x, y, cell, audioAlive>>
                ELSE /\ x' = Advance(CurFrame, x, y)[1]
                     /\ y' = Advance(CurFrame, x, y)[2]
                     /\ out' = IF x = CurFrame.w - 1
                               THEN printed \o <<Tok("move_down"), Tok("to_col0")>>
                               ELSE printed
                     /\ cell' = cell + 1
                     /\ cursor' = "drawing"
                     /\ UNCHANGED <<pc, audioAlive, res, renderRet, result>>
    /\ UNCHANGED <<config, env, mediaVars, rawMode, pos, audioStarts, delay, passes,
                   frameIdx, shown, rendered, cancelled, polls, sleeps,
                   steps, consumed>>

\* helpers.rs:340: the for loop is over and display_frame returns Ok(()): to
\* the sleep of play_video, or for a still image to the end of render
\* (helpers.rs:293-294)
DisplayDone ==
    /\ pc = "display"
    /\ cell = CellCount(CurFrame)
    /\ IF is_video
       THEN /\ pc' = "sleep"
            /\ UNCHANGED <<rawMode, renderRet, result>>
       ELSE /\ rawMode' = FALSE
            /\ renderRet' = Ok
            /\ result' = Ok
            /\ pc' = "drop"
    /\ UNCHANGED <<config, env, mediaVars, pos, cursor, dispVars, audioVars,
                   playVars>>

(***************************************************************************)
(* The session: any file, any flags that keep the frames small.            *)
(***************************************************************************)
\* what ffprobe prints for the file: the text, and the frame rate it stands
\* for in hundredths (0: the text names no rate)
MetadataSamples ==
    { [text |-> <<"6", "0", "F">>, fps100 |-> 6000],
      [text |-> <<"x", "2", "9", ".", "9", "7", "F", "x">>, fps100 |-> 2997],
      [text |-> <<"2", "5", "F", "3", "0", "F">>, fps100 |-> 2500],
      [text |-> <<"x", "x">>, fps100 |-> 0],
      [text |-> <<"x", "F">>, fps100 |-> 0],
      [text |-> <<".", "F">>, fps100 |-> 0],
      [text |-> <<"0", "F">>, fps100 |-> 0] }

SessionSizes == { NoneOpt, Some(<<"1", "x", "2">>), Some(<<"2", "x", "A">>) }

SourceFiles ==
    { [i \in 1 .. n |-> SourceFrame(i - 1, w, h)] :
        n \in 0 .. MaxFrames, w \in 1 .. MaxW, h \in 1 .. MaxH }

Quiet ==
    /\ pc = "new"
    /\ frames = <<>>
    /\ is_video = FALSE
    /\ has_audio = FALSE
    /\ storage = FALSE
    /\ rawMode = FALSE
    /\ pos = "unset"
    /\ cursor = "prompt"
    /\ delay = 0
    /\ passes = 0
    /\ frameIdx = 0
    /\ x = 0
    /\ y = 0
    /\ cell = 0
    /\ out = <<>>
    /\ reads = <<>>
    /\ shown = <<>>
    /\ rendered = 0
    /\ audioAlive = FALSE
    /\ audioStarts = 0
    /\ cancelled = FALSE
    /\ polls = 0
    /\ sleeps = <<>>
    /\ steps = <<>>
    /\ consumed = NoneOpt
    /\ audioTried = FALSE
    /\ res = NoRet
    /\ renderRet = NoRet
    /\ result = NoRet

Init ==
    /\ config \in [size : SessionSizes, scale4 : {NoneOpt}, preserve_dims : {TRUE},
                   invert : {FALSE}, flip_h : {FALSE}, flip_v : {FALSE},
                   loop_video : BOOLEAN, mute : BOOLEAN]
    /\ env \in [srcFrames : SourceFiles, audioOk : BOOLEAN,
                metadata : MetadataSamples,
                badFrame : {NoneOpt} \cup {Some(i) : i \in 0 .. MaxFrames - 1},
                removeOk : BOOLEAN, mkdirOk : BOOLEAN]
    /\ IsSome(env.badFrame) => env.badFrame[1] < Len(env.srcFrames)
    /\ Quiet

Next ==
    \/ MediaNew
    \/ UnpackFile
    \/ Transform
    \/ RenderPrime
    \/ ResolveRate
    \/ PassBegin
    \/ LoopHead
    \/ \E ok \in BOOLEAN : DisplayCell(ok)
    \/ DisplayDone
    \/ Sleep
    \/ \E ev \in Events : Poll(ev)
    \/ Reposition
    \/ PassEnd
    \/ Drop

Spec == Init /\ [][Next]_vars

(***************************************************************************)
(* Rate resolution over every frame rate up to MaxFps100 / 100: a short    *)
(* video whose ffprobe text is the rate as ffprobe prints it.              *)
(***************************************************************************)
RECURSIVE ToDigits(_)
\* the decimal digits of n >= 0
ToDigits(n) ==
    IF n < 10 THEN <<Digits[n + 1]>>
    ELSE Append(ToDigits(n \div 10), Digits[(n % 10) + 1])

\* "<rate> fps" as ffprobe prints it: no decimals for a whole rate, else two
FormatFps(n) ==
    IF n % 100 = 0 THEN ToDigits(n \div 100) \o <<"F">>
    ELSE ToDigits(n \div 100) \o <<".">>
         \o <<Digits[((n % 100) \div 10) + 1], Digits[(n % 10) + 1]>> \o <<"F">>

BaseConfig ==
    [size |-> NoneOpt, scale4 |-> NoneOpt, preserve_dims |-> TRUE, invert |-> FALSE,
     flip_h |-> FALSE, flip_v |-> FALSE, loop_video |-> FALSE, mute |-> FALSE]

InitRate ==
    /\ config = BaseConfig
    /\ \E n \in 1 .. MaxFps100 :
          env = [srcFrames |-> [i \in 1 .. 2 |-> SourceFrame(i - 1, 1, 2)],
                 audioOk |-> TRUE,
                 badFrame |-> NoneOpt, removeOk |-> TRUE, mkdirOk |-> TRUE,
                 metadata |-> [text |-> <<"x">> \o FormatFps(n) \o <<"x">>,
                               fps100 |-> n]]
    /\ Quiet

SpecRate == InitRate /\ [][Next]_vars

(***************************************************************************)
(* The sizing of transform over --size strings, source dimensions, scale   *)
(* factors and the preserve flag.                                          *)
(***************************************************************************)
SizeAlphabet == {"0", "1", "2", "x", "A"}

\* the --size strings of length n
SizeStrings(n) == [1 .. n -> SizeAlphabet]

MaxSrc == 5         \* largest source width and height of the sizing check

SrcDims == ((1 .. MaxSrc) \X (1 .. MaxSrc)) \cup { <<100, 50>>, <<50, 100>>, <<130, 2>> }

ScaleSamples == { NoneOpt, Some(1), Some(2), Some(4), Some(6), Some(-4) }

InitTransform ==
    /\ \/ /\ \E n \in 0 .. MaxSizeLen : \E str \in SizeStrings(n) :
                config \in [size : {Some(str)},
                            scale4 : {NoneOpt}, preserve_dims : BOOLEAN,
                            invert : {FALSE}, flip_h : {FALSE}, flip_v : {FALSE},
                            loop_video : {FALSE}, mute : {FALSE}]
          /\ \E n \in 1 .. 2 :
                env = [srcFrames |-> [i \in 1 .. n |-> SourceFrame(i - 1, 3, 2)],
                       audioOk |-> TRUE,
                       badFrame |-> NoneOpt, removeOk |-> TRUE, mkdirOk |-> TRUE,
                       metadata |-> [text |-> <<"6", "0", "F">>, fps100 |-> 6000]]
       \/ /\ config \in [size : {NoneOpt, Some(<<"2", "x", "1">>)},
                         scale4 : ScaleSamples, preserve_dims : BOOLEAN,
                         invert : {FALSE}, flip_h : {FALSE}, flip_v : {FALSE},
                         loop_video : {FALSE}, mute : {FALSE}]
          /\ \E d \in SrcDims :
                env = [srcFrames |-> [i \in 1 .. 2 |-> SourceFrame(i - 1, d[1], d[2])],
                       audioOk |-> TRUE,
                       badFrame |-> NoneOpt, removeOk |-> TRUE, mkdirOk |-> TRUE,
                       metadata |-> [text |-> <<"6", "0", "F">>, fps100 |-> 6000]]
    /\ Quiet

NextTransform ==
    \/ MediaNew
    \/ UnpackFile
    \/ Transform

SpecTransform == InitTransform /\ [][NextTransform]_vars

(***************************************************************************)
(* The glyph renderer over every small Bitmap: a still image shown as is.  *)
(***************************************************************************)
MaxPixels == 8      \* most pixels of a Bitmap of the renderer check

Pixels == { PixelSamples[i] : i \in 1 .. Len(PixelSamples) }

BitmapDims == { d \in (1 .. MaxPixels) \X (1 .. MaxPixels) : d[1] * d[2] <= MaxPixels }

\* the Bitmaps of width w and height h
Bitmaps(w, h) == { [w |-> w, h |-> h, px |-> p] : p \in [Coords(w, h) -> Pixels] }

InitDisplay ==
    /\ config = BaseConfig
    /\ \E d \in BitmapDims : \E b \in Bitmaps(d[1], d[2]) :
          env = [srcFrames |-> <<b>>, audioOk |-> FALSE,
                 badFrame |-> NoneOpt, removeOk |-> TRUE, mkdirOk |-> TRUE,
                 metadata |-> [text |-> <<"x">>, fps100 |-> 0]]
    /\ Quiet

NextDisplay ==
    \/ MediaNew
    \/ UnpackFile
    \/ Transform
    \/ RenderPrime
    \/ \E ok \in BOOLEAN : DisplayCell(ok)
    \/ DisplayDone
    \/ Drop

SpecDisplay == InitDisplay /\ [][NextDisplay]_vars

(***************************************************************************)
(* Properties.                                                             *)
(***************************************************************************)
RenderReturned == renderRet.kind # "none"

InPlayVideo == pc \in {"loop_head", "display", "sleep", "poll", "reposition"}

\* C1: once render has enabled raw mode, raw mode is disabled again before
\* render returns, on every exit path (end of a still image, loop-disabled
\* end, cancellation, and every error return).
C1_RawModeOffAtReturn == RenderReturned => ~rawMode

\* C2: in video playback, once a poll has observed the cancel input no
\* further frame is rendered and no further pass is started, whatever the
\* loop flag, and render returns success.
C2_CancelEndsPlayback ==
    [][ /\ cancelled => /\ cancelled'
                        /\ rendered' = rendered
                        /\ passes' = passes
                        /\ pc' \in {"pass_end", "drop", "exit", "abort"}
        /\ (cancelled' /\ renderRet'.kind # "none") => renderRet' = Ok ]_vars

C2_Witness ==
    /\ cancelled
    /\ config.loop_video
    /\ pc = "exit"
    /\ renderRet = Ok
    /\ Len(frames) = 3
    /\ rendered = 1

\* C3: for a video with audio (present and not muted), every pass starts a
\* fresh audio stream before its first frame is rendered, the handle lives
\* until play_video has returned (last frame shown, cancelled or failed) and
\* it is released before the next pass starts.
C3_AudioPerPass ==
    (is_video /\ has_audio) =>
        /\ audioStarts = passes
        /\ (InPlayVideo \/ pc = "pass_end") => audioAlive
        /\ pc = "pass" => ~audioAlive
        /\ rendered > 0 => audioStarts > 0

C3_Witness ==
    /\ is_video
    /\ has_audio
    /\ passes = 2
    /\ audioStarts = 2
    /\ audioAlive
    /\ pc = "display"
    /\ frameIdx = Len(frames) - 1

\* C4: in video playback the frames of every pass are rendered in Sequence
\* order 0, 1, ..., n-1, none skipped or repeated; after a full pass without
\* cancellation the next pass starts at frame 0 if the loop flag is set, and
\* no further frame is rendered if it is not.
C4_FramesInOrder ==
    (is_video /\ passes >= 1) =>
        /\ \A i \in 1 .. Len(shown) : shown[i] = i - 1
        /\ rendered = (passes - 1) * Len(frames) + Len(shown)
        /\ pc \in {"display", "sleep", "poll", "reposition"} =>
               /\ frameIdx < Len(frames)
               /\ Len(shown) = frameIdx + 1
        /\ pc = "loop_head" => Len(shown) = frameIdx
        /\ (pc = "pass_end" /\ res.kind \in {"true", "false"} /\ ~cancelled) =>
               /\ Len(shown) = Len(frames)
               /\ res = OkBool(config.loop_video)
        /\ pc = "pass" => (config.loop_video /\ Len(shown) = Len(frames))
        /\ (RenderReturned /\ renderRet = Ok /\ ~cancelled) =>
               /\ ~config.loop_video
               /\ rendered = Len(frames)

C4_Witness ==
    /\ is_video
    /\ Len(frames) = 3
    /\ passes = 2
    /\ shown = <<0, 1, 2>>
    /\ rendered = 6
    /\ pc = "pass_end"

\* did the session get as far as the rate resolution of render
RateResolutionDone == is_video /\ pos # "unset" /\ pc # "resolve"

\* is there a "<number> fps" in the text: " fps" right after a digit or a dot
\* that belongs to a number
HasNumberFps(text) ==
    \E k \in 1 .. Len(text) :
        /\ text[k] = "F"
        /\ \E i \in 1 .. k - 1 :
              /\ NumShape(SubSeq(text, i, k - 1))
              /\ \E j \in i .. k - 1 : IsDigit(text[j])

\* C5: for a video whose metadata holds no "<number> fps", render returns the
\* error "Could not determine framerate of video!" (an error result, not a
\* crash), before any frame is rendered.
C5_NoRateIsAnError ==
    (RateResolutionDone /\ ~HasNumberFps(env.metadata.text)) =>
        /\ renderRet = Err(FramerateError)
        /\ rendered = 0

\* round(1000 / fps) for fps = fps100 / 100, halves away from zero
RoundedDelay(fps100) == (200000 + fps100) \div (2 * fps100)

\* C6 as claimed: for every positive frame rate the delay is round(1000 / fps),
\* and every sleep of the session uses it.
C6_DelayIsRounded ==
    (RateResolutionDone /\ env.metadata.fps100 > 0 /\ result.kind # "panic") =>
        /\ delay = RoundedDelay(env.metadata.fps100)
        /\ \A i \in 1 .. Len(sleeps) : sleeps[i] = RoundedDelay(env.metadata.fps100)

\* C6 as amended: for every positive frame rate the delay is 1000 / fps
\* truncated toward zero to whole milliseconds (29.97 fps gives 33 ms, 60 fps
\* gives 16 ms), and every sleep of the session uses this same delay.
C6_DelayIsTruncated ==
    (RateResolutionDone /\ env.metadata.fps100 > 0) =>
        /\ result.kind # "panic"
        /\ delay * env.metadata.fps100 <= 100000
        /\ (delay + 1) * env.metadata.fps100 > 100000
        /\ \A i \in 1 .. Len(sleeps) : sleeps[i] = delay

C6_Witness ==
    /\ env.metadata.fps100 = 5994
    /\ delay = 16
    /\ sleeps = <<16, 16>>

TransformDone == pc \notin {"new", "unpack", "transform"}

PositiveInt(c) == c # <<>> /\ AllDigits(c) /\ DecVal(c) > 0

\* is s two positive integers in the form WxH; then SizeW and SizeH are they
WellFormedSize(s) ==
    \E k \in 1 .. Len(s) :
        /\ s[k] = "x"
        /\ PositiveInt(SubSeq(s, 1, k - 1))
        /\ PositiveInt(SubSeq(s, k + 1, Len(s)))

SizeSep(s) == CHOOSE k \in 1 .. Len(s) : s[k] = "x"
SizeW(s) == DecVal(SubSeq(s, 1, SizeSep(s) - 1))
SizeH(s) == DecVal(SubSeq(s, SizeSep(s) + 1, Len(s)))

\* C7: when --size is present but is not two positive integers WxH (a
\* non-numeric, zero, missing or extra component), transform returns the
\* size-format error and modifies no frame; when it is W and H (and there is
\* no scale), every frame ends with dimensions exactly (W, H).
C7_SizeIsValidated ==
    (TransformDone /\ IsSome(config.size)) =>
        IF ~WellFormedSize(config.size[1])
        THEN /\ result = Err(SizeError)
             /\ frames = env.srcFrames
        ELSE ~IsSome(config.scale4) =>
                /\ result.kind = "none"
                /\ \A i \in 1 .. Len(frames) :
                      /\ frames[i].w = SizeW(config.size[1])
                      /\ frames[i].h = SizeH(config.size[1])

\* C8: without --size and without the preserve flag the target geometry, from
\* the first frame's original (w, h), has the longer side 64 and the shorter
\* side floor(64 * shorter / longer) (a square gives (64, 64)); a scale factor
\* then multiplies both, truncating toward zero; with the preserve flag and no
\* --size the source dimensions are kept.
C8_DefaultGeometry ==
    (TransformDone /\ ~IsSome(config.size)
       /\ (IsSome(config.scale4) => config.scale4[1] > 0)) =>
        LET w == env.srcFrames[1].w
            h == env.srcFrames[1].h
            s4 == IF IsSome(config.scale4) THEN config.scale4[1] ELSE 4
            Sized(bw, bh) ==
                \* is (bw, bh) the geometry before the scale factor
                IF config.preserve_dims THEN bw = w /\ bh = h
                ELSE IF w > h
                THEN bw = 64 /\ bh * w <= 64 * h /\ (bh + 1) * w > 64 * h
                ELSE IF h > w
                THEN bh = 64 /\ bw * h <= 64 * w /\ (bw + 1) * h > 64 * w
                ELSE bw = 64 /\ bh = 64
        IN  /\ result.kind = "none"
            /\ Len(frames) = Len(env.srcFrames)
            /\ \A i \in 1 .. Len(frames) :
                  \E bw \in 0 .. 64 + w, bh \in 0 .. 64 + h :
                      /\ Sized(bw, bh)
                      /\ 4 * frames[i].w <= bw * s4
                      /\ 4 * (frames[i].w + 1) > bw * s4
                      /\ 4 * frames[i].h <= bh * s4
                      /\ 4 * (frames[i].h + 1) > bh * s4

C8_Witness ==
    /\ TransformDone
    /\ ~IsSome(config.size)
    /\ ~config.preserve_dims
    /\ config.scale4 = Some(6)
    /\ env.srcFrames[1].w = 100
    /\ env.srcFrames[1].h = 50
    /\ frames[2].w = 96
    /\ frames[2].h = 48

GlyphTokens == {"lower_half", "upper_half", "space"}

\* the number of cells among the first i printed items
GlyphsBefore(o, i) == Cardinality({j \in 1 .. i : o[j].t \in GlyphTokens})

StillShown == ~is_video /\ pos # "unset" /\ pc \in {"drop", "exit", "abort"}

\* C9: for a Bitmap of width w >= 1 and even height h, display_frame emits
\* exactly w * h/2 cells, reads every pixel exactly once (as the upper pixel
\* of its cell when y is even, as the lower one when y is odd), visits the
\* cells row by row from the left, and emits the next-line move (down one
\* line, column zero) exactly once after every w cells.
C9_EveryPixelOnce ==
    (StillShown /\ frames[1].h % 2 = 0 /\ result.kind # "err") =>
        LET f == frames[1]
            n == (f.w * f.h) \div 2
            moves == {i \in 1 .. Len(out) : out[i].t = "move_down"}
        IN  /\ renderRet = Ok
            /\ cell = n
            /\ GlyphsBefore(out, Len(out)) = n
            /\ Len(reads) = 2 * n
            /\ \A c \in Coords(f.w, f.h) :
                  Cardinality({i \in 1 .. Len(reads) : reads[i] = c}) = 1
            /\ \A k \in 1 .. n :
                  /\ reads[2 * k - 1] = <<(k - 1) % f.w, 2 * ((k - 1) \div f.w)>>
                  /\ reads[2 * k] = <<(k - 1) % f.w, 2 * ((k - 1) \div f.w) + 1>>
            /\ Cardinality(moves) = f.h \div 2
            /\ \A i \in moves :
                  /\ i < Len(out)
                  /\ out[i + 1].t = "to_col0"
                  /\ out[i - 1].t \in {"reset", "space"}
            /\ {GlyphsBefore(out, i) : i \in moves} = {f.w * r : r \in 1 .. f.h \div 2}
            /\ Cardinality({i \in 1 .. Len(out) : out[i].t = "to_col0"}) = f.h \div 2

C9_Witness ==
    /\ StillShown
    /\ renderRet = Ok
    /\ frames[1].w = 2
    /\ frames[1].h = 4
    /\ cell = 4

\* the cell the claim's table gives for an upper and a lower pixel
TableCell(upper, lower) ==
    CASE upper[4] # 0 /\ lower[4] # 0 ->
            <<[t |-> "bg", rgb |-> <<upper[1], upper[2], upper[3]>>],
              [t |-> "fg", rgb |-> <<lower[1], lower[2], lower[3]>>],
              [t |-> "lower_half", rgb |-> <<>>], [t |-> "reset", rgb |-> <<>>]>>
      [] upper[4] = 0 /\ lower[4] = 0 ->
            <<[t |-> "space", rgb |-> <<>>]>>
      [] upper[4] # 0 /\ lower[4] = 0 ->
            <<[t |-> "fg", rgb |-> <<upper[1], upper[2], upper[3]>>],
              [t |-> "upper_half", rgb |-> <<>>], [t |-> "reset", rgb |-> <<>>]>>
      [] upper[4] = 0 /\ lower[4] # 0 ->
            <<[t |-> "fg", rgb |-> <<lower[1], lower[2], lower[3]>>],
              [t |-> "lower_half", rgb |-> <<>>], [t |-> "reset", rgb |-> <<>>]>>

NextLine == <<[t |-> "move_down", rgb |-> <<>>], [t |-> "to_col0", rgb |-> <<>>]>>

\* C10: what a cell prints is a function of its upper and lower pixel only:
\* the table of the four alpha cases, every coloured cell ending with the
\* reset code, a transparent cell being one space without any colour code.
C10_CellEncoding ==
    [][ (pc = "display" /\ out' # out) =>
           LET f == frames[frameIdx + 1]
               c == TableCell(f.px[<<x, y>>], f.px[<<x, y + 1>>])
           IN  out' = out \o c \/ out' = out \o c \o NextLine ]_vars

C10_Witness ==
    /\ StillShown
    /\ renderRet = Ok
    /\ \E i \in 1 .. Len(out) : out[i].t = "space"
    /\ \E i \in 1 .. Len(out) : out[i].t = "upper_half"
    /\ \E i \in 1 .. Len(out) : out[i].t = "bg" /\ out[i].rgb # out[i + 1].rgb
    /\ \E i \in 1 .. Len(out) - 1 :
          /\ out[i].t = "fg"
          /\ out[i + 1].t = "lower_half"
          /\ (i = 1 \/ out[i - 1].t # "bg")

(***************************************************************************)
(* C11: a sequence of one frame is rendered exactly once, with no          *)
(* frame-rate resolution, sleep, poll or audio start, and render is over   *)
(* right after that one display_frame.                                     *)
(***************************************************************************)
\* render has begun: the anchor is taken first thing (helpers.rs:238)
RenderBegun == pos # "unset"

\* C11: once render has begun on a sequence of length 1, display_frame has
\* been entered exactly once, for frame 0; the rate was never resolved, no
\* pass of play_video was begun, nothing slept, polled or started audio; and
\* render is in that display_frame or has ended, with Ok exactly when every
\* cell of the frame was printed
C11_StillImageOnce ==
    (Len(frames) = 1 /\ RenderBegun) =>
        /\ pc \in {"display", "drop", "exit", "abort"}
        /\ rendered = 1
        /\ shown = <<0>>
        /\ delay = 0
        /\ passes = 0
        /\ sleeps = <<>>
        /\ polls = 0
        /\ audioStarts = 0
        /\ ~audioAlive
        /\ pc # "display" =>
              /\ renderRet.kind \in {"ok", "err"}
              /\ renderRet.kind = "ok" => cell = CellCount(frames[1])

\* a still image whose file carries an audio stream, shown to the end
C11_Witness ==
    /\ Len(frames) = 1
    /\ has_audio
    /\ pc = "exit"
    /\ renderRet = Ok
    /\ rendered = 1
    /\ cell = CellCount(frames[1])
    /\ cell > 0

(***************************************************************************)
(* C12: what the message of a failed decode names.                         *)
(***************************************************************************)
\* load_frames has failed on a decode
DecodeFailed ==
    /\ pc \in {"drop", "exit", "abort"}
    /\ ~RenderBegun
    /\ DecodeFails

\* C12: the message of a failed decode names the file alone when the media
\* is a single image, and "frame i/n of file" with i the number of the
\* failing file and n the number of files of the media when it has several
C12_DecodeErrorNames ==
    (DecodeFailed /\ result.kind = "err") =>
        IF Len(env.srcFrames) = 1
        THEN result = Ret("err", "Unable to decode file", <<>>)
        ELSE result = Ret("err", "Unable to decode frame of file",
                          <<env.badFrame[1], Len(env.srcFrames)>>)

(***************************************************************************)
(* C13: the temporary directory of a session is removed however the        *)
(* session ends, and a failed removal aborts.                              *)
(***************************************************************************)
\* Media::new has returned a Media
SessionCreated == pc # "new" /\ result # Err(CreateDirError)

\* main has returned or unwound and the Media has been dropped
SessionEnded == SessionCreated /\ pc \in {"exit", "abort"}

\* C13: a created session that has ended normally (after a full playback, a
\* cancellation, or an error of unpack_file, transform or render) has no
\* temporary directory left; it ends in the abort exactly when the removal
\* failed, with the panic of Drop as its outcome; and main never comes to a
\* result without the Media being dropped
C13_StorageRemoved ==
    /\ SessionCreated => (storage \/ pc \in {"exit"})
    /\ (SessionCreated /\ result.kind \in {"ok", "err"}) =>
           pc \in {"drop", "exit", "abort"}
    /\ SessionEnded =>
           /\ (pc = "exit") = env.removeOk
           /\ pc = "exit" => ~storage
           /\ pc = "abort" => (result = Panic(CleanError) /\ storage)

\* a cancelled video whose directory is gone at the end
C13_Witness ==
    /\ SessionEnded
    /\ cancelled
    /\ pc = "exit"
    /\ ~storage
    /\ result = Ok

(***************************************************************************)
(* C14: a flush failure ends display_frame, the pass and the session.      *)
(***************************************************************************)
\* what display_frame returned to its caller: play_video hands it on with ?
\* as its own result, render returns it for a still image
DisplayRet == IF is_video THEN res ELSE renderRet

\* display_frame has returned an error
FlushFailed == RenderBegun /\ DisplayRet.kind = "err"

\* C14: a step that leaves display_frame before its last cell, other than by
\* a panic, leaves it with an error; that error carries the coordinate of the
\* cell being printed; and from then on no cell and no frame is rendered, no
\* pass is begun (looping or not), nothing sleeps or polls, and render
\* returns that same error
C14_FlushErrorEndsSession ==
    [][ /\ ( /\ pc = "display"
             /\ pc' # "display"
             /\ cell < CellCount(CurFrame)
             /\ result'.kind # "panic" ) => FlushFailed'
        /\ FlushFailed =>
             /\ DisplayRet = FlushError(x, y)
             /\ x = cell % CurFrame.w
             /\ y = 2 * (cell \div CurFrame.w)
             /\ UNCHANGED <<x, y, cell, out, reads, rendered, shown, frameIdx,
                            passes, sleeps, polls, audioStarts, res>>
             /\ pc \in {"pass_end", "drop", "exit", "abort"}
             /\ pc' \in {"drop", "exit", "abort"}
             /\ renderRet' = DisplayRet
             /\ ~audioAlive'
      ]_vars

\* a looping video whose second cell of a frame failed to flush, at its end
C14_Witness ==
    /\ is_video
    /\ config.loop_video
    /\ FlushFailed
    /\ res = FlushError(1, 0)
    /\ renderRet = res
    /\ passes = 1
    /\ pc = "exit"

(***************************************************************************)
(* The invert transform over every value of a channel: a one-pixel image   *)
(* run with --invert, with and without the flips.                          *)
(***************************************************************************)
\* the values of a u8 channel
Channel == 0 .. U8Max

\* the source pixels: the first channel takes every value, the others the
\* ends and some values between
InvertPixels ==
    { <<r, g, b, a>> : r \in Channel, g \in {0, 200}, b \in {U8Max, 17},
                       a \in {0, 128, U8Max} }

InitInvert ==
    /\ \E fl \in BOOLEAN :
          config = [BaseConfig EXCEPT !.invert = TRUE, !.flip_h = fl, !.flip_v = fl]
    /\ \E p \in InvertPixels :
          env = [srcFrames |-> << [w |-> 1, h |-> 1, px |-> [c \in Coords(1, 1) |-> p]] >>,
                 audioOk |-> FALSE,
                 badFrame |-> NoneOpt, removeOk |-> TRUE, mkdirOk |-> TRUE,
                 metadata |-> [text |-> <<"x">>, fps100 |-> 0]]
    /\ Quiet

SpecInvert == InitInvert /\ [][NextTransform]_vars

\* the frame as transform left it, and as it was decoded
Inverted == frames[1].px[<<0, 0>>]
Original == env.srcFrames[1].px[<<0, 0>>]

\* C15: with invert set, transform leaves every pixel with each of R, G and
\* B at 255 minus what it was, still a u8, and alpha as it was; inverting the
\* result once more gives back the decoded pixel exactly
C15_InvertTwiceIsIdentity ==
    (TransformDone /\ config.invert /\ result.kind = "none") =>
        /\ \A i \in 1 .. 3 : /\ Inverted[i] = U8Max - Original[i]
                             /\ Inverted[i] \in Channel
                             /\ Inverted[i] + Original[i] = U8Max
        /\ Inverted[4] = Original[4]
        /\ InvertPixel(Inverted) = Original
        /\ InvertFrame(frames[1]) = env.srcFrames[1]

\* a pixel with a mid-range channel and a partial alpha, inverted
C15_Witness ==
    /\ TransformDone
    /\ config.invert
    /\ Original = <<100, 200, 17, 128>>
    /\ Inverted = <<155, 55, 238, 128>>

(***************************************************************************)
(* C16: when audio is started, and what a failed extraction does.          *)
(***************************************************************************)
\* unpack_file has run
Unpacked == pc \notin {"new", "unpack"} /\ SessionCreated

\* the audio extraction was run and failed
ExtractionFailed == Unpacked /\ audioTried /\ ~env.audioOk

\* C16: audio is started, or playing, only for a video with mute unset whose
\* audio extraction succeeded; with mute set the extraction is not run and
\* no audio is ever started; a failed extraction leaves no error behind
\* (unpack_file goes on to the transform) and a playback that ends
\* uncancelled has shown every frame of every pass without audio
C16_AudioOnlyWhenExtracted ==
    /\ (audioStarts > 0 \/ audioAlive) =>
           /\ is_video
           /\ ~config.mute
           /\ audioTried
           /\ env.audioOk
    /\ config.mute => (~audioTried /\ ~has_audio /\ audioStarts = 0)
    /\ (Unpacked /\ ~config.mute) => audioTried
    /\ ExtractionFailed =>
           /\ ~has_audio
           /\ audioStarts = 0
           /\ (pc = "transform" /\ ~DecodeFails) => result.kind = "none"
           /\ (is_video /\ renderRet = Ok /\ ~cancelled) =>
                  /\ rendered = passes * Len(frames)
                  /\ Len(sleeps) = rendered

\* a three-frame video whose extraction failed, played to its end in silence
C16_Witness ==
    /\ ExtractionFailed
    /\ is_video
    /\ Len(frames) = MaxFrames
    /\ renderRet = Ok
    /\ ~cancelled
    /\ rendered = Len(frames)
    /\ audioStarts = 0
    /\ pc = "exit"

(***************************************************************************)
(* C17: the order of the steps play_video takes for one frame.             *)
(***************************************************************************)
IsPrefix(s, t) == Len(s) <= Len(t) /\ s = SubSeq(t, 1, Len(s))

\* the order as stated: the cursor goes back before the sleep and the poll
StatedOrder == <<"render", "reposition", "sleep", "poll">>

\* the order of helpers.rs:353-369
PlayOrder == <<"render", "sleep", "poll", "reposition">>

\* C17 as stated: what play_video has done for its current frame is always
\* render, reposition, sleep, poll, in this order, so that the cursor is back
\* at the anchor when the frame's poll takes place
C17_RepositionBeforePoll ==
    (is_video /\ RenderBegun) =>
        /\ IsPrefix(steps, StatedOrder)
        /\ pc = "poll" => cursor = pos

\* C17: what play_video has done for its current frame is always render,
\* sleep, poll, reposition, in this order: it sleeps and polls with the
\* cursor where the frame left it, moves it back to the anchor only after a
\* poll that saw no cancel input, and never after one that did
C17_RepositionAfterPoll ==
    (is_video /\ RenderBegun) =>
        /\ IsPrefix(steps, PlayOrder)
        /\ pc \in {"display", "sleep"} => steps = <<"render">>
        /\ pc = "sleep" => cell = CellCount(CurFrame)
        /\ pc = "poll" =>
              /\ steps = <<"render", "sleep">>
              /\ sleeps[Len(sleeps)] = delay
              /\ cell > 0 => cursor = "drawing"
        /\ pc = "reposition" => (steps = <<"render", "sleep", "poll">> /\ ~cancelled)
        /\ cancelled => (steps = <<"render", "sleep", "poll">> /\ (cell > 0 => cursor = "drawing"))
        /\ steps = PlayOrder => (cursor = pos /\ pc \in {"loop_head", "pass_end", "pass", "drop", "exit", "abort"})

\* a frame of a video taken through all four steps, the cursor back at the
\* anchor for the next frame
C17_Witness ==
    /\ is_video
    /\ steps = PlayOrder
    /\ pc = "loop_head"
    /\ frameIdx = 1
    /\ cell > 0
    /\ cursor = pos

(***************************************************************************)
(* C18: the anchor is taken once, and every frame starts at it.            *)
(***************************************************************************)
\* C18: the anchor is taken in one step of render, before any frame or cell
\* is drawn, and never changes afterwards; and whenever display_frame is
\* entered (for a still image, for every frame of a video, for the first
\* frame of every pass) the cursor is at the anchor
C18_FramesStartAtAnchor ==
    [][ /\ pos # "unset" => pos' = pos
        /\ pos' # pos => (pc = "render" /\ rendered = 0 /\ out = <<>> /\ passes = 0)
        /\ rendered' # rendered =>
              /\ rendered' = rendered + 1
              /\ pos' # "unset"
              /\ cursor' = pos'
              /\ cell' = 0
      ]_vars

\* the first frame of the second pass of a looping video about to be drawn
C18_Witness ==
    /\ is_video
    /\ passes = 2
    /\ pc = "display"
    /\ frameIdx = 0
    /\ cell = 0
    /\ rendered = Len(frames) + 1
    /\ cursor = pos
    /\ pos = "anchor"

(***************************************************************************)
(* C19: display_frame stays inside the Bitmap, odd heights included.       *)
(***************************************************************************)
\* the rows display_frame has read of the frame
RowsRead == { reads[i][2] : i \in 1 .. Len(reads) }

\* C19: every pixel display_frame reads lies inside the Bitmap, so get_pixel
\* never panics; display_frame prints at most w * floor(h/2) cells and
\* returns Ok after exactly that many; and of a Bitmap of odd height the
\* last row is never read
C19_NoReadOutOfRange ==
    RenderBegun =>
        /\ \A i \in 1 .. Len(reads) : InBounds(CurFrame, reads[i][1], reads[i][2])
        /\ \A i \in 1 .. Len(reads) : reads[i][1] < CurFrame.w /\ reads[i][2] < CurFrame.h
        /\ result.kind # "panic"
        /\ cell <= CurFrame.w * (CurFrame.h \div 2)
        /\ Len(reads) \in {2 * cell, 2 * cell + 2}
        /\ renderRet = Ok => cell = CurFrame.w * (CurFrame.h \div 2)
        /\ CurFrame.h % 2 = 1 => (CurFrame.h - 1) \notin RowsRead

\* a Bitmap of width 2 and height 3 shown to the end: two cells, rows 0 and 1
C19_Witness ==
    /\ StillShown
    /\ CurFrame.w = 2
    /\ CurFrame.h = 3
    /\ renderRet = Ok
    /\ cell = 2
    /\ RowsRead = {0, 1}

(***************************************************************************)
(* Playback without a bound on the passes: videos with a readable frame    *)
(* rate.  The program is one thread that always takes its next step.       *)
(***************************************************************************)
\* helpers.rs:273-277 when the count of passes is at its bound: the pass is
\* begun as PassBegin begins it, and the counts of what was played (passes,
\* frames, sleeps, polls, audio starts) start over as of a first pass
PassWrap ==
    /\ pc = "pass"
    /\ passes = MaxPasses
    /\ passes' = 1
    /\ rendered' = 0
    /\ sleeps' = <<>>
    /\ polls' = 0
    /\ IF has_audio
       THEN /\ audioAlive' = TRUE
            /\ audioStarts' = 1
       ELSE UNCHANGED audioVars
    /\ frameIdx' = 0
    /\ shown' = <<>>
    /\ pc' = "loop_head"
    /\ UNCHANGED <<config, env, mediaVars, termVars, dispVars, delay, cancelled,
                   res, steps, consumed, renderRet, result>>

InitLive ==
    /\ \E lp \in BOOLEAN, mu \in BOOLEAN :
          config = [BaseConfig EXCEPT !.loop_video = lp, !.mute = mu]
    /\ \E n \in 2 .. MaxFrames, w \in 1 .. MaxW, ok \in BOOLEAN :
          env = [srcFrames |-> [i \in 1 .. n |-> SourceFrame(i - 1, w, 2)],
                 audioOk |-> ok,
                 badFrame |-> NoneOpt, removeOk |-> TRUE, mkdirOk |-> TRUE,
                 metadata |-> [text |-> <<"6", "0", "F">>, fps100 |-> 6000]]
    /\ Quiet

NextLive ==
    \/ MediaNew
    \/ UnpackFile
    \/ Transform
    \/ RenderPrime
    \/ ResolveRate
    \/ PassBegin
    \/ PassWrap
    \/ PassEnd
    \/ LoopHead
    \/ Sleep
    \/ \E ev \in Events : Poll(ev)
    \/ Reposition
    \/ \E ok \in BOOLEAN : DisplayCell(ok)
    \/ DisplayDone
    \/ Drop

SpecLive == InitLive /\ [][NextLive]_vars /\ WF_vars(NextLive)

\* no poll ever sees a cancel input and no flush ever fails
NoCancelNoError ==
    [](~cancelled /\ res.kind # "err" /\ renderRet.kind # "err")

\* C20: render returns from a video only after a cancel input, with an error,
\* or with looping unset after all n frames; without looping never more than
\* n frames are rendered; when no cancel input and no error ever comes, a
\* video without looping ends with render returning Ok after exactly n
\* frames, and a looping video never returns from render and shows each of
\* its frames again and again for ever
C20_PlaybackEnds ==
    /\ [](RenderReturned =>
             \/ cancelled
             \/ renderRet.kind = "err"
             \/ (~config.loop_video /\ renderRet = Ok /\ rendered = Len(frames)))
    /\ [](~config.loop_video => rendered <= Len(frames))
    /\ (NoCancelNoError /\ ~config.loop_video) =>
           <>(pc = "exit" /\ renderRet = Ok /\ rendered = Len(frames))
    /\ (NoCancelNoError /\ config.loop_video) =>
           /\ [](~RenderReturned)
           /\ \A i \in 0 .. MaxFrames - 1 :
                 []<>(i < Len(frames) => (pc = "display" /\ frameIdx = i))

\* a looping video in the last frame of a pass past its first
C20_Witness ==
    /\ config.loop_video
    /\ is_video
    /\ ~cancelled
    /\ passes = MaxPasses
    /\ pc = "display"
    /\ frameIdx = Len(frames) - 1
    /\ Len(frames) = MaxFrames
    /\ rendered = MaxPasses * Len(frames)

(***************************************************************************)
(* The poll of play_video over more kinds of input: a two-frame video,     *)
(* looping or not, and at every poll no event or any one of InputEvents.   *)
(***************************************************************************)
\* events that differ from the two of helpers.rs:358-361 in the key, in the
\* modifiers, or in kind: Q with shift, c without ctrl, q with ctrl, Esc,
\* a resize of the terminal
InputEvents == Events \cup {"shift_q", "c", "ctrl_q", "esc", "resize"}

InitInput ==
    /\ \E lp \in BOOLEAN : config = [BaseConfig EXCEPT !.loop_video = lp]
    /\ env = [srcFrames |-> [i \in 1 .. 2 |-> SourceFrame(i - 1, 1, 2)],
              audioOk |-> TRUE,
              badFrame |-> NoneOpt, removeOk |-> TRUE, mkdirOk |-> TRUE,
              metadata |-> [text |-> <<"6", "0", "F">>, fps100 |-> 6000]]
    /\ Quiet

NextInput ==
    \/ MediaNew
    \/ UnpackFile
    \/ Transform
    \/ RenderPrime
    \/ ResolveRate
    \/ PassBegin
    \/ PassEnd
    \/ LoopHead
    \/ Sleep
    \/ \E ev \in InputEvents : Poll(ev)
    \/ Reposition
    \/ \E ok \in BOOLEAN : DisplayCell(ok)
    \/ DisplayDone
    \/ Drop

SpecInput == InitInput /\ [][NextInput]_vars

\* the two events of helpers.rs:358-361
CancelInputs == {Some("q"), Some("ctrl_c")}

\* C21: a poll cancels playback exactly when the event it read is the key q
\* or Ctrl-C; a poll that read any other event has taken it off the input,
\* and like a poll that timed out it leaves play_video at the MoveTo with
\* the pass not ended, from where the loop goes to its next frame and
\* renders it if there is one
C21_OnlyQOrCtrlCCancels ==
    [][ /\ polls' # polls =>
              /\ polls' = polls + 1
              /\ cancelled' = (consumed' \in CancelInputs)
              /\ cancelled' => (res' = OkBool(FALSE) /\ pc' = "pass_end")
              /\ ~cancelled' =>
                    /\ pc' = "reposition"
                    /\ UNCHANGED <<res, frameIdx, rendered, passes>>
        /\ pc = "reposition" =>
              /\ ~cancelled
              /\ pc' = "loop_head"
              /\ frameIdx' = frameIdx + 1
        /\ (pc = "loop_head" /\ frameIdx < Len(frames)) =>
              /\ pc' = "display"
              /\ rendered' = rendered + 1
              /\ shown' = Append(shown, frameIdx)
        /\ cancelled' => consumed' \in CancelInputs
      ]_vars

\* the second frame of a video being drawn after the poll of the first frame
\* read an event that is not a cancel input
C21_Witness ==
    /\ is_video
    /\ consumed = Some("shift_q")
    /\ ~cancelled
    /\ polls = 1
    /\ pc = "display"
    /\ frameIdx = 1
    /\ rendered = 2

====
